---- MODULE Spec2Model ----
(***************************************************************************)
(* pyowm: the Trigger entity of the Alerting API client                    *)
(* (pyowm/alertingapi30/trigger.py) and the ImageTypeEnum lookup table     *)
(* exercised by tests/unit/commons/test_enums.py.                          *)
(*                                                                         *)
(* Python lists are objects: a Trigger holds a REFERENCE to its alerts     *)
(* list, and a method that returns a list returns a reference.  The model  *)
(* keeps the list objects in `heap` and passes references around, so that  *)
(* aliasing between the Trigger and its callers is visible.                *)
(***************************************************************************)
EXTENDS Integers, Sequences, FiniteSets, TLC

VARIABLES
    trigger,    \* the Trigger object: its fields, or NoTrigger before construction
    heap,       \* list objects: reference -> sequence of Alert
    last,       \* the most recent call on the Trigger: operation, arguments, outcome
    registry,   \* ImageTypeEnum: the fixed sequence of ImageType records
    lookups     \* the history of ImageTypeEnum lookups: <<kind, argument, result>>

vars == <<trigger, heap, last, registry, lookups>>

(***************************************************************************)
(* Bounds                                                                  *)
(***************************************************************************)
\* the stored alerts list never grows beyond MaxAlerts entries
MaxAlerts == 2
\* length of the recorded history of ImageTypeEnum lookups
MaxLookups == 2

(***************************************************************************)
(* Python values                                                           *)
(***************************************************************************)
\* an optional list argument: None, or a list with its items
NoneList == [none |-> TRUE, items |-> <<>>]
List(s) == [none |-> FALSE, items |-> s]

\* an optional value (Alert, ImageType, id): <<>> is None, <<v>> is v
None == <<>>
Some(v) == <<v>>

(***************************************************************************)
(* timeformatutils.to_UNIXtime: int, datetime or ISO8601 string to epoch   *)
(* seconds.  A datetime and an ISO8601 string carry calendar fields; the   *)
(* model keeps the two least significant ones (minute, second) of an       *)
(* instant of 1970-01-01 00:mm:ss UTC.                                     *)
(***************************************************************************)
SecondsPerMinute == 60

TimeNone == [kind |-> "none"]
TimeInts == [kind : {"int"}, v : {0, 1, SecondsPerMinute}]
TimeDatetimes == { [kind |-> "datetime", minute |-> 0, second |-> 1],
                   [kind |-> "datetime", minute |-> 1, second |-> 0] }
TimeISO == { [kind |-> "iso", minute |-> 1, second |-> 0] }
TimeUnparseable == [kind |-> "str"]   \* a string that is not ISO8601

\* what a caller can pass where a time is expected
TimeInputs == {TimeNone, TimeUnparseable} \cup TimeInts \cup TimeDatetimes \cup TimeISO

\* the inputs to_UNIXtime converts
Parseable(t) == t.kind \in {"int", "datetime", "iso"}

to_UNIXtime(t) ==
    CASE t.kind = "int" -> t.v
      [] t.kind = "datetime" -> SecondsPerMinute * t.minute + t.second
      [] t.kind = "iso" -> SecondsPerMinute * t.minute + t.second

\* the error to_UNIXtime raises on input it cannot convert
to_UNIXtime_raises(t) == IF Parseable(t) THEN "none" ELSE "ValueError"

(***************************************************************************)
(* Alerts, conditions, channels                                            *)
(***************************************************************************)
\* pyowm.alertingapi30.enums.AlertChannelsEnum.OWM_API_POLLING
OWM_API_POLLING == "OWM_API_POLLING"

\* a Condition, of which the Trigger reads only weather_param
Condition(wp) == [weather_param |-> wp]
\* an entry of Alert.met_conditions: a dict with the condition met
MetCondition(wp) == [condition |-> Condition(wp)]

\* the Alert objects the OWM API may have fired: two share an id, two a
\* last_update, and one refers twice to the same weather parameter
AlertUniverse ==
    { [id |-> "a1", last_update |-> 0, met_conditions |-> <<>>],
      [id |-> "a1", last_update |-> 1,
       met_conditions |-> <<MetCondition("temp"), MetCondition("temp")>>],
      [id |-> "a2", last_update |-> 1,
       met_conditions |-> <<MetCondition("humidity"), MetCondition("temp")>>] }

AlertIds == {"a1", "a2", "zz"}
WeatherParams == {"temp", "humidity", "wind_speed"}

\* arguments of the constructor
ConditionsInputs == {NoneList, List(<<>>), List(<<Condition("temp")>>)}
AreaInputs == {NoneList, List(<<>>), List(<<"Point">>)}
ChannelsInputs == {NoneList, List(<<>>), List(<<"HTTP_CALLBACK">>)}
IdInputs == {None, Some("t1")}
\* the alerts argument is None or a reference to the caller's list
AlertsInputs == {[none |-> TRUE, ref |-> "arg"], [none |-> FALSE, ref |-> "arg"]}
\* contents of the caller's list when the constructor is called
ArgListContents == {<<>>} \cup {<<a>> : a \in AlertUniverse}

\* list objects: the caller's alerts argument, the list() the constructor
\* creates, and the result list a query method creates
Refs == {"arg", "own", "res"}

NoTrigger == [constructed |-> FALSE]
Constructed(t) == t.constructed

(***************************************************************************)
(* Trigger.__init__                                                        *)
(***************************************************************************)
\* line 39: the test that rejects the time window
StartNotBeforeEnd_Strict(unix_start, unix_end) == unix_start > unix_end
StartNotBeforeEnd(unix_start, unix_end) == unix_start >= unix_end

\* line 49: alerts is None or empty
AlertsDefaulted(alerts, h) == alerts.none \/ Len(h[alerts.ref]) = 0

\* line 53: alert_channels is None or empty
ChannelsDefaulted_NoneOnly(alert_channels) == alert_channels.none
ChannelsDefaulted(alert_channels) ==
    alert_channels.none \/ Len(alert_channels.items) = 0

\* lines 41-42, 49-57: the fields assigned
Fields_EndFromStart(unix_start, unix_end, alerts, alert_channels, id, h) ==
    [constructed |-> TRUE,
     start |-> unix_start,
     end |-> unix_start,
     alerts |-> IF AlertsDefaulted(alerts, h) THEN "own" ELSE alerts.ref,
     alert_channels |-> IF ChannelsDefaulted(alert_channels)
                        THEN <<OWM_API_POLLING>> ELSE alert_channels.items,
     id |-> id]
Fields(unix_start, unix_end, alerts, alert_channels, id, h) ==
    [constructed |-> TRUE,
     start |-> unix_start,
     end |-> unix_end,
     alerts |-> IF AlertsDefaulted(alerts, h) THEN "own" ELSE alerts.ref,
     alert_channels |-> IF ChannelsDefaulted(alert_channels)
                        THEN <<OWM_API_POLLING>> ELSE alert_channels.items,
     id |-> id]

\* an exception leaves the constructor: no Trigger is returned
Raise(e, h) == [raised |-> e, self |-> NoTrigger, heap |-> h]

Trigger__init__(start, end, conditions, area, alerts, alert_channels, id, h) ==
    IF start.kind = "none" THEN Raise("AssertionError", h)
    ELSE IF end.kind = "none" THEN Raise("AssertionError", h)
    ELSE IF to_UNIXtime_raises(start) # "none" THEN Raise(to_UNIXtime_raises(start), h)
    ELSE IF to_UNIXtime_raises(end) # "none" THEN Raise(to_UNIXtime_raises(end), h)
    ELSE LET unix_start == to_UNIXtime(start)
             unix_end == to_UNIXtime(end)
         IN IF StartNotBeforeEnd(unix_start, unix_end) THEN Raise("ValueError", h)
            ELSE IF conditions.none THEN Raise("AssertionError", h)
            ELSE IF Len(conditions.items) = 0 THEN Raise("ValueError", h)
            ELSE IF area.none THEN Raise("AssertionError", h)
            ELSE IF Len(area.items) = 0 THEN Raise("ValueError", h)
            ELSE [raised |-> "none",
                  self |-> Fields(unix_start, unix_end, alerts, alert_channels, id, h),
                  heap |-> IF AlertsDefaulted(alerts, h)
                           THEN [h EXCEPT !["own"] = <<>>] ELSE h]

(***************************************************************************)
(* Trigger.get_alerts, get_alert, get_alerts_since, get_alerts_on          *)
(* A method that returns a list gives the reference returned and the heap  *)
(* after the call.                                                         *)
(***************************************************************************)
get_alerts_Copy(self, h) ==
    [ref |-> "res", heap |-> [h EXCEPT !["res"] = h[self.alerts]]]
get_alerts(self, h) == [ref |-> self.alerts, heap |-> h]

\* lines 72-75: the scan from position i on
RECURSIVE get_alert_scan(_, _, _)
get_alert_scan(alerts, alert_id, i) ==
    IF i > Len(alerts) THEN None
    ELSE IF alerts[i].id = alert_id THEN Some(alerts[i])
    ELSE get_alert_scan(alerts, alert_id, i + 1)

\* a scan that keeps the last match instead of returning at the first
RECURSIVE get_alert_scan_last(_, _, _)
get_alert_scan_last(alerts, alert_id, i) ==
    IF i > Len(alerts) THEN None
    ELSE LET rest == get_alert_scan_last(alerts, alert_id, i + 1)
         IN IF rest # None THEN rest
            ELSE IF alerts[i].id = alert_id THEN Some(alerts[i]) ELSE None

get_alert_Last(self, h, alert_id) == get_alert_scan_last(h[self.alerts], alert_id, 1)
get_alert(self, h, alert_id) == get_alert_scan(h[self.alerts], alert_id, 1)

\* line 87: the test that keeps an alert
Since_Exclusive(alert, unix_timestamp) == alert.last_update > unix_timestamp
Since(alert, unix_timestamp) == alert.last_update >= unix_timestamp

\* lines 85-89: the loop from position i on, result so far in `result`
RECURSIVE get_alerts_since_loop(_, _, _, _)
get_alerts_since_loop(alerts, unix_timestamp, i, result) ==
    IF i > Len(alerts) THEN result
    ELSE get_alerts_since_loop(alerts, unix_timestamp, i + 1,
            IF Since(alerts[i], unix_timestamp) THEN Append(result, alerts[i])
            ELSE result)

get_alerts_since(self, h, timestamp) ==
    LET unix_timestamp == to_UNIXtime(timestamp)
    IN [ref |-> "res",
        heap |-> [h EXCEPT !["res"] =
                    get_alerts_since_loop(h[self.alerts], unix_timestamp, 1, <<>>)]]

\* lines 101-104: the inner loop over one alert's met_conditions, from
\* position j on; appends the alert at the first match and breaks
RECURSIVE on_inner_NoBreak(_, _, _, _)
on_inner_NoBreak(alert, weather_param, j, result) ==
    IF j > Len(alert.met_conditions) THEN result
    ELSE on_inner_NoBreak(alert, weather_param, j + 1,
            IF alert.met_conditions[j].condition.weather_param = weather_param
            THEN Append(result, alert) ELSE result)
RECURSIVE on_inner_scan(_, _, _, _)
on_inner_scan(alert, weather_param, j, result) ==
    IF j > Len(alert.met_conditions) THEN result
    ELSE IF alert.met_conditions[j].condition.weather_param = weather_param
         THEN Append(result, alert)
         ELSE on_inner_scan(alert, weather_param, j + 1, result)
on_inner(alert, weather_param, j, result) ==
    on_inner_scan(alert, weather_param, j, result)

\* lines 99-105: the outer loop
RECURSIVE get_alerts_on_loop(_, _, _, _)
get_alerts_on_loop(alerts, weather_param, i, result) ==
    IF i > Len(alerts) THEN result
    ELSE get_alerts_on_loop(alerts, weather_param, i + 1,
            on_inner(alerts[i], weather_param, 1, result))

get_alerts_on(self, h, weather_param) ==
    [ref |-> "res",
     heap |-> [h EXCEPT !["res"] =
                 get_alerts_on_loop(h[self.alerts], weather_param, 1, <<>>)]]

(***************************************************************************)
(* ImageTypeEnum: the registry of ImageType records and its two lookups    *)
(***************************************************************************)
ImageTypes ==
    << [name |-> "PNG", mime_type |-> "image/png"],
       [name |-> "GEOTIFF", mime_type |-> "image/tiff"] >>

MimeInputs == {"image/png", "image/tiff", "unexistent/xyz", "IMAGE/PNG", "GEOTIFF"}
NameInputs == {"PNG", "GEOTIFF", "ZOOMOOO", "geotiff", "image/png"}

RECURSIVE lookup_mime_scan(_, _, _)
lookup_mime_scan(items, mime_type, i) ==
    IF i > Len(items) THEN None
    ELSE IF items[i].mime_type = mime_type THEN Some(items[i])
    ELSE lookup_mime_scan(items, mime_type, i + 1)

RECURSIVE lookup_name_scan(_, _, _)
lookup_name_scan(items, name, i) ==
    IF i > Len(items) THEN None
    ELSE IF items[i].name = name THEN Some(items[i])
    ELSE lookup_name_scan(items, name, i + 1)

lookup_by_mime_type(items, mime_type) == lookup_mime_scan(items, mime_type, 1)

\* a lookup by name that compares the wrong attribute
lookup_by_name_WrongField(items, name) == lookup_mime_scan(items, name, 1)
lookup_by_name(items, name) == lookup_name_scan(items, name, 1)

(***************************************************************************)
(* State machine                                                           *)
(***************************************************************************)
\* the record of a call: operation, argument, exception raised, list
\* reference returned (or "none"), Alert returned (or None), and for a
\* caller's append the method that had returned the list
Call(op, arg, raised, ref, alert, from) ==
    [op |-> op, arg |-> arg, raised |-> raised, ref |-> ref, alert |-> alert,
     from |-> from]

\* a result list no caller holds any more is garbage
Collect(h, ref) == IF ref = "res" THEN h ELSE [h EXCEPT !["res"] = <<>>]

Init ==
    /\ trigger = NoTrigger
    /\ heap = [r \in Refs |-> <<>>]
    /\ last = Call("none", None, "none", "none", None, "none")
    /\ registry = ImageTypes
    /\ lookups = <<>>

\* Trigger(start, end, conditions, area, alerts, alert_channels, id)
Construct ==
    /\ ~Constructed(trigger)
    /\ last.op = "none"   \* the one constructor call of the run
    /\ \E start \in TimeInputs, end \in TimeInputs, conditions \in ConditionsInputs,
          area \in AreaInputs, alerts \in AlertsInputs, given \in ArgListContents,
          alert_channels \in ChannelsInputs, id \in IdInputs :
        /\ alerts.none => given = <<>>
        /\ LET h == [heap EXCEPT !["arg"] = given, !["res"] = <<>>]
               r == Trigger__init__(start, end, conditions, area, alerts,
                                    alert_channels, id, h)
           IN /\ trigger' = r.self
              /\ heap' = r.heap
              /\ last' = Call("init",
                              [start |-> start, end |-> end, conditions |-> conditions,
                               area |-> area, alerts |-> alerts, given |-> given,
                               alert_channels |-> alert_channels, id |-> id],
                              r.raised, "none", None, "none")
    /\ UNCHANGED <<registry, lookups>>

\* the synchronization collaborator appends a fired alert: trigger.alerts.append(a)
ExternalAppend ==
    /\ Constructed(trigger)
    /\ Len(heap[trigger.alerts]) < MaxAlerts
    /\ \E a \in AlertUniverse :
        /\ heap' = Collect([heap EXCEPT ![trigger.alerts] = Append(@, a)], "none")
        /\ last' = Call("append", a, "none", "none", None, "none")
    /\ UNCHANGED <<trigger, registry, lookups>>

\* the remote API assigns the id after creation: trigger.id = "t1"
ExternalSetId ==
    /\ Constructed(trigger)
    /\ trigger.id = None
    /\ trigger' = [trigger EXCEPT !.id = Some("t1")]
    /\ heap' = Collect(heap, "none")
    /\ last' = Call("set_id", "t1", "none", "none", None, "none")
    /\ UNCHANGED <<registry, lookups>>

GetAlerts ==
    /\ Constructed(trigger)
    /\ LET r == get_alerts(trigger, heap)
       IN /\ heap' = Collect(r.heap, r.ref)
          /\ last' = Call("get_alerts", None, "none", r.ref, None, "none")
    /\ UNCHANGED <<trigger, registry, lookups>>

GetAlert ==
    /\ Constructed(trigger)
    /\ \E alert_id \in AlertIds :
        last' = Call("get_alert", alert_id, "none", "none",
                     get_alert(trigger, heap, alert_id), "none")
    /\ heap' = Collect(heap, "none")
    /\ UNCHANGED <<trigger, registry, lookups>>

GetAlertsSince ==
    /\ Constructed(trigger)
    /\ \E timestamp \in TimeInputs \ {TimeNone} :
        IF to_UNIXtime_raises(timestamp) # "none"
        THEN /\ heap' = Collect(heap, "none")
             /\ last' = Call("get_alerts_since", timestamp,
                             to_UNIXtime_raises(timestamp), "none", None, "none")
        ELSE LET r == get_alerts_since(trigger, heap, timestamp)
             IN /\ heap' = Collect(r.heap, r.ref)
                /\ last' = Call("get_alerts_since", timestamp, "none", r.ref, None, "none")
    /\ UNCHANGED <<trigger, registry, lookups>>

GetAlertsOn ==
    /\ Constructed(trigger)
    /\ \E weather_param \in WeatherParams :
        LET r == get_alerts_on(trigger, heap, weather_param)
        IN /\ heap' = Collect(r.heap, r.ref)
           /\ last' = Call("get_alerts_on", weather_param, "none", r.ref, None, "none")
    /\ UNCHANGED <<trigger, registry, lookups>>

\* the caller appends to the list the last method call returned
CallerAppend ==
    /\ Constructed(trigger)
    /\ last.ref # "none"
    /\ last.op # "caller_append"
    /\ Len(heap[last.ref]) < MaxAlerts
    /\ \E a \in AlertUniverse :
        /\ heap' = [heap EXCEPT ![last.ref] = Append(@, a)]
        /\ last' = Call("caller_append", a, "none", last.ref, None, last.op)
    /\ UNCHANGED <<trigger, registry, lookups>>

LookupByMimeType ==
    /\ Len(lookups) < MaxLookups
    /\ \E mime_type \in MimeInputs :
        lookups' = Append(lookups,
                          <<"mime_type", mime_type, lookup_by_mime_type(registry, mime_type)>>)
    /\ UNCHANGED <<trigger, heap, last, registry>>

LookupByName ==
    /\ Len(lookups) < MaxLookups
    /\ \E name \in NameInputs :
        lookups' = Append(lookups, <<"name", name, lookup_by_name(registry, name)>>)
    /\ UNCHANGED <<trigger, heap, last, registry>>

Next ==
    \/ Construct
    \/ ExternalAppend
    \/ ExternalSetId
    \/ GetAlerts
    \/ GetAlert
    \/ GetAlertsSince
    \/ GetAlertsOn
    \/ CallerAppend

Spec == Init /\ [][Next]_vars

NextEnum ==
    \/ LookupByMimeType
    \/ LookupByName

SpecEnum == Init /\ [][NextEnum]_vars

(***************************************************************************)
(* Properties                                                              *)
(***************************************************************************)
\* the arguments of the constructor call just made
Args == last.arg
Constructing == last.op = "init"
EmptyList(l) == ~l.none /\ Len(l.items) = 0
NonEmptyList(l) == ~l.none /\ Len(l.items) > 0
\* both times convert, so that the normalized start and end exist
Normalized(a) == Parseable(a.start) /\ Parseable(a.end)
Least(S) == CHOOSE i \in S : \A j \in S : i <= j
\* the list the Trigger stores
Stored == heap[trigger.alerts]
Refers(alert, weather_param) ==
    \E j \in 1 .. Len(alert.met_conditions) :
        alert.met_conditions[j].condition.weather_param = weather_param

\* C1: construction raises ValueError and yields no Trigger whenever the
\* normalized start equals or exceeds the normalized end, or conditions is
\* an empty sequence, or area is an empty sequence, whatever the other
\* arguments are.
C1_InvalidArgumentsRaiseValueError ==
    ( /\ Constructing
      /\ \/ (Normalized(Args) /\ to_UNIXtime(Args.start) >= to_UNIXtime(Args.end))
         \/ EmptyList(Args.conditions)
         \/ EmptyList(Args.area) )
    => (last.raised = "ValueError" /\ ~Constructed(trigger))

\* C2: construction with start None or end None raises ValueError, and
\* ValueError is the only error construction raises.
C2_AbsentTimesRaiseValueError ==
    Constructing =>
        /\ (Args.start = TimeNone \/ Args.end = TimeNone) => last.raised = "ValueError"
        /\ last.raised \in {"none", "ValueError"}

\* C3: with normalized start < normalized end and conditions and area both
\* non-empty, construction succeeds and the stored start and end are
\* to_UNIXtime(start) and to_UNIXtime(end).
C3_ValidArgumentsConstruct ==
    ( /\ Constructing
      /\ Normalized(Args)
      /\ to_UNIXtime(Args.start) < to_UNIXtime(Args.end)
      /\ NonEmptyList(Args.conditions)
      /\ NonEmptyList(Args.area) )
    => /\ last.raised = "none"
       /\ Constructed(trigger)
       /\ trigger.start = to_UNIXtime(Args.start)
       /\ trigger.end = to_UNIXtime(Args.end)

\* a Trigger built from a datetime start and an ISO8601 end
C3_Witness ==
    /\ Constructing
    /\ Constructed(trigger)
    /\ Args.start.kind = "datetime"
    /\ Args.end.kind = "iso"
    /\ trigger.start = 1
    /\ trigger.end = SecondsPerMinute

\* C4: every Trigger that exists has start < end, after construction and
\* after any sequence of queries, appends to alerts and assignment of id.
C4_StartPrecedesEnd == Constructed(trigger) => trigger.start < trigger.end

\* a Trigger whose id was assigned and alerts appended, queried afterwards
C4_Witness ==
    /\ Constructed(trigger)
    /\ trigger.id = Some("t1")
    /\ trigger.alerts = "own"
    /\ Len(Stored) = MaxAlerts
    /\ last.op = "get_alerts_on"

\* C5: get_alerts_since(timestamp) returns exactly the stored alerts with
\* last_update >= to_UNIXtime(timestamp), each once, in stored order.
C5_SinceIsInclusiveFilter ==
    (Constructed(trigger) /\ last.op = "get_alerts_since" /\ last.raised = "none") =>
        LET t == to_UNIXtime(last.arg)
            kept(a) == a.last_update >= t
        IN /\ heap[last.ref] = SelectSeq(Stored, kept)
           /\ \A i \in 1 .. Len(heap[last.ref]) : heap[last.ref][i].last_update >= t
           /\ Len(heap[last.ref]) =
                Cardinality({i \in 1 .. Len(Stored) : Stored[i].last_update >= t})

\* a query at the boundary: one stored alert is older, one has exactly
\* the timestamp asked for
C5_Witness ==
    /\ Constructed(trigger)
    /\ last.op = "get_alerts_since"
    /\ last.raised = "none"
    /\ last.arg.kind = "datetime"
    /\ Len(Stored) = 2
    /\ Stored[1].last_update < to_UNIXtime(last.arg)
    /\ Stored[2].last_update = to_UNIXtime(last.arg)
    /\ heap[last.ref] = <<Stored[2]>>

\* C6: get_alerts_on(weather_param) returns exactly the stored alerts with
\* a met_conditions entry on weather_param, in stored order, each once
\* however many entries match; an alert with no met_conditions never appears.
C6_OnIsFilterWithoutRepeats ==
    (Constructed(trigger) /\ last.op = "get_alerts_on") =>
        LET kept(a) == Refers(a, last.arg)
        IN /\ heap[last.ref] = SelectSeq(Stored, kept)
           /\ Len(heap[last.ref]) <= Len(Stored)
           /\ \A i \in 1 .. Len(heap[last.ref]) :
                Len(heap[last.ref][i].met_conditions) > 0

\* an alert that meets two conditions on "temp", after one that meets none
C6_Witness ==
    /\ Constructed(trigger)
    /\ last.op = "get_alerts_on"
    /\ last.arg = "temp"
    /\ Len(Stored) = 2
    /\ Len(Stored[1].met_conditions) = 0
    /\ Cardinality({j \in 1 .. Len(Stored[2].met_conditions) :
            Stored[2].met_conditions[j].condition.weather_param = "temp"}) = 2
    /\ heap[last.ref] = <<Stored[2]>>

\* C7: get_alert(alert_id) returns the stored alert with that id, the
\* earliest-inserted one when several share it, and None when there is none.
C7_GetAlertFirstMatchOrNone ==
    (Constructed(trigger) /\ last.op = "get_alert") =>
        LET matches == {i \in 1 .. Len(Stored) : Stored[i].id = last.arg}
        IN /\ last.raised = "none"
           /\ IF matches = {} THEN last.alert = None
              ELSE last.alert = Some(Stored[Least(matches)])

\* two different stored alerts share the id asked for
C7_Witness ==
    /\ Constructed(trigger)
    /\ last.op = "get_alert"
    /\ Len(Stored) = 2
    /\ Stored[1].id = last.arg
    /\ Stored[2].id = last.arg
    /\ Stored[1] # Stored[2]
    /\ last.alert = Some(Stored[1])

\* C8 (as claimed): get_alerts() returns a read-only view of the stored
\* alerts: nothing a caller does with the returned value changes the
\* Trigger's stored alerts sequence.
C8_ReturnedValueIsReadOnlyView ==
    [][ (last'.op = "caller_append" /\ last'.from = "get_alerts")
        => heap'[trigger'.alerts] = heap[trigger.alerts] ]_vars

\* C8 (amended): get_alerts() returns the full stored sequence in stored
\* order and the call leaves it unchanged; the value returned is the
\* Trigger's own list, so an append the caller makes to it appends to the
\* Trigger's stored alerts.
C8_GetAlertsReturnsStoredList ==
    [][ /\ last'.op = "get_alerts" =>
            /\ heap'[last'.ref] = heap[trigger.alerts]
            /\ heap'[trigger'.alerts] = heap[trigger.alerts]
        /\ (last'.op = "caller_append" /\ last'.from = "get_alerts") =>
            heap'[trigger'.alerts] = Append(heap[trigger.alerts], last'.arg) ]_vars

\* the caller has appended to the list get_alerts() returned
C8_Witness ==
    /\ Constructed(trigger)
    /\ last.op = "caller_append"
    /\ last.from = "get_alerts"
    /\ Len(Stored) = 2
    /\ Stored[2] = last.arg

\* C9: after a successful construction alert_channels is [OWM_API_POLLING]
\* when the argument was None or empty, is the given sequence when it was
\* non-empty, and is never empty.
C9_AlertChannelsDefault ==
    /\ (Constructing /\ last.raised = "none") =>
        /\ (Args.alert_channels.none \/ Len(Args.alert_channels.items) = 0)
            => trigger.alert_channels = <<OWM_API_POLLING>>
        /\ Len(Args.alert_channels.items) > 0
            => trigger.alert_channels = Args.alert_channels.items
    /\ Constructed(trigger) => Len(trigger.alert_channels) > 0

\* a Trigger built with alert_channels = []
C9_Witness ==
    /\ Constructing
    /\ Constructed(trigger)
    /\ EmptyList(Args.alert_channels)
    /\ trigger.alert_channels = <<OWM_API_POLLING>>

\* C10: each lookup returns the first record of the registry whose
\* mime_type (or name) equals the argument exactly and None when there is
\* none; the registry never changes, and a lookup repeated gives the same
\* result.
C10_LookupsFindFirstOrNone ==
    /\ registry = ImageTypes
    /\ \A k \in 1 .. Len(lookups) :
        LET kind == lookups[k][1]
            arg == lookups[k][2]
            matches == {i \in 1 .. Len(registry) :
                          IF kind = "mime_type" THEN registry[i].mime_type = arg
                          ELSE registry[i].name = arg}
        IN IF matches = {} THEN lookups[k][3] = None
           ELSE lookups[k][3] = Some(registry[Least(matches)])
    /\ \A j, k \in 1 .. Len(lookups) :
        (lookups[j][1] = lookups[k][1] /\ lookups[j][2] = lookups[k][2])
            => lookups[j][3] = lookups[k][3]

\* lookup_by_name('GEOTIFF') found a record, twice in a row
C10_Witness ==
    /\ Len(lookups) = 2
    /\ lookups[1] = <<"name", "GEOTIFF", Some(registry[2])>>
    /\ lookups[2] = lookups[1]

====
